---- MODULE Spec2Model ----
(***************************************************************************)
(* State-machine model of predictors/saved_model_v2_predictor.py:          *)
(* SavedModelPredictorBase and its two variants SavedModelTF2Predictor     *)
(* (eager) and SavedModelTF1Predictor (graph and session).                 *)
(*                                                                         *)
(* One predictor instance is modelled.  Its constructor arguments (the     *)
(* variant, the timeout, the saved model path) are drawn in Init.  restore *)
(* is modelled statement by statement (pc), because it polls the Model     *)
(* Store and assigns the predictor's fields one after the other; every     *)
(* other method is one action.  A second thread may call the other methods *)
(* while restore is in progress (the class provides no thread-safety).     *)
(***************************************************************************)
EXTENDS Integers, Sequences, FiniteSets, TLC

(***************************************************************************)
(* Bounds of the model.                                                    *)
(***************************************************************************)
\* Largest size of one tensor dimension.
MaxDim == 2
\* Largest timeout, counted in polling intervals.
MaxTimeoutPolls == 1

(***************************************************************************)
(* Program constants.                                                      *)
(***************************************************************************)
BUSY_WAITING_SLEEP_TIME_IN_SECS == 10

(***************************************************************************)
(* Values.                                                                 *)
(***************************************************************************)
\* Python's None, and a value that is set, as a set of at most one element.
None == {}
Some(v) == {v}
Val(o) == CHOOSE v \in o : TRUE

Threads == {"t1", "t2"}
Variants == {"base", "eager", "graph"}
Keys == {"x", "y"}
\* The sizes of a dimension: 1 and the largest size.
Dims == {1, MaxDim}

\* Tensor shapes are sequences of dimensions.  A specification shape (a
\* scalar or a vector) has no batch dimension; a caller's feature may or
\* may not carry one.
SpecShapes == {<<>>, <<MaxDim>>}
FeatureShapes == SpecShapes \cup {<<b>> \o s : b \in Dims, s \in SpecShapes}
\* The unknown (None) batch dimension of a placeholder.
UnknownDim == 0

Timeouts ==
  {0 - BUSY_WAITING_SLEEP_TIME_IN_SECS, 0}
    \cup {k * BUSY_WAITING_SLEEP_TIME_IN_SECS : k \in 1..MaxTimeoutPolls}

\* os.path.basename(saved_model_path): a version number, or some other name.
PathBasenames == {"numeric", "text"}

VARIABLES
  variant,          \* which class was constructed
  timeout,          \* self._timeout
  saved_model_path, \* the basename of self._saved_model_path
  predictor,        \* the fields restore assigns: model, feature_spec,
                    \* label_spec, and (graph variant) features, predictions
  export,           \* the t2r assets of the export in the Model Store
  marker,           \* assets.extra/t2r_assets.pbtxt exists
  now,              \* time.time()
  pc,               \* the statement of restore that runs next, or "idle"
  restorer,         \* the thread that runs restore
  start_time,       \* restore's local start_time
  checks,           \* tf.io.gfile.exists calls of the current/last restore
  sleeps,           \* time.sleep calls of the current/last restore
  sawMarker,        \* a check of the current/last restore saw the marker
  entry,            \* the predictor's fields when the restore call began
  base_result,      \* what SavedModelPredictorBase.restore returned or raised
  restoreResult,    \* how the last restore call ended ("none", "running", ..)
  restored,         \* some restore call has loaded the model
  closed,           \* some close call has returned
  ambient,          \* per thread: the default session and graph stacks
  ambient0,         \* per thread: the caller's own defaults
  lastCall          \* the last call of a method other than restore: the
                    \* method, how it ended, whether it left the fields
                    \* unchanged, and how the last restore had ended and
                    \* whether close had returned when it was made

vars ==
  <<variant, timeout, saved_model_path, predictor, export, marker, now, pc,
    restorer, start_time, checks, sleeps, sawMarker, entry, base_result,
    restoreResult, restored, closed, ambient, ambient0, lastCall>>

(***************************************************************************)
(* __init__                                                                *)
(***************************************************************************)
\* SavedModelPredictorBase.__init__ and SavedModelTF1Predictor.__init__:
\* every field that restore assigns starts as None.
Constructed ==
  [model |-> None, feature_spec |-> None, label_spec |-> None,
   features |-> None, predictions |-> None]

\* The attributes an instance has after construction.
InstanceAttributes(v) ==
  {"_saved_model_path", "_timeout", "_model", "_feature_spec", "_label_spec"}
    \cup (IF v = "graph"
          THEN {"_tf_config", "_graph", "_session", "_predictions", "_features"}
          ELSE {})

HasAttr(v, name) == name \in InstanceAttributes(v)

\* The attribute that restore's logging.info call reads.
LoggedAttribute == "_saved_model_dir"

(***************************************************************************)
(* The methods other than restore, as functions of the predictor's fields. *)
(* Each gives the fields after the call (self), how the call ended         *)
(* (outcome), what it returned when that is a specification (returned),    *)
(* what it handed to the runtime (handed) and the form of the predictions  *)
(* (form).                                                                 *)
(***************************************************************************)
NotRestored == "ValueError_not_restored"
Returned == "returned"

Result(p, outcome) ==
  [self |-> p, outcome |-> outcome, returned |-> None, handed |-> None,
   form |-> "none"]

\* assert_is_loaded without its check.
assert_is_loaded_unchecked(p) == TRUE

\* assert_is_loaded passes iff self._model is not None.
assert_is_loaded(p) == p.model # None

\* init_randomly that initializes a model instead of raising.
init_randomly_supported(p) ==
  Result([p EXCEPT !.model = Some("random_model")], Returned)

init_randomly(p) == Result(p, "ValueError_random_init")

\* close that drops the model handle.
close_releasing(p) ==
  IF ~assert_is_loaded(p) THEN Result(p, NotRestored)
  ELSE Result([p EXCEPT !.model = None], Returned)

close(p) ==
  IF ~assert_is_loaded(p) THEN Result(p, NotRestored) ELSE Result(p, Returned)

get_feature_specification(p) ==
  IF ~assert_is_loaded(p) THEN Result(p, NotRestored)
  ELSE [Result(p, Returned) EXCEPT !.returned = p.feature_spec]

get_label_specification(p) ==
  IF ~assert_is_loaded(p) THEN Result(p, NotRestored)
  ELSE [Result(p, Returned) EXCEPT !.returned = p.label_spec]

\* int(os.path.basename(path)) raises ValueError unless the name is a number.
model_version(p, basename) ==
  IF ~assert_is_loaded(p) THEN Result(p, NotRestored)
  ELSE IF basename = "numeric" THEN Result(p, Returned)
  ELSE Result(p, "ValueError_invalid_literal")

model_path(p) ==
  IF ~assert_is_loaded(p) THEN Result(p, NotRestored) ELSE Result(p, Returned)

\* SavedModelPredictorBase.global_step: self._model.global_step().
base_global_step(p) ==
  IF ~assert_is_loaded(p) THEN Result(p, NotRestored)
  ELSE [Result(p, Returned) EXCEPT !.form = "tensor"]

\* SavedModelTF2Predictor.global_step: self._model.global_step().numpy().
tf2_global_step(p) ==
  IF ~assert_is_loaded(p) THEN Result(p, NotRestored)
  ELSE [Result(p, Returned) EXCEPT !.form = "ndarray"]

\* SavedModelTF1Predictor.global_step: super().global_step is a property, so
\* reading it already yields the step tensor, and calling that tensor raises.
tf1_global_step(p) ==
  IF ~assert_is_loaded(p) THEN Result(p, NotRestored)
  ELSE LET step == base_global_step(p) IN
       IF step.outcome = Returned THEN Result(p, "TypeError") ELSE step

global_step(v, p) ==
  IF v = "graph" THEN tf1_global_step(p)
  ELSE IF v = "eager" THEN tf2_global_step(p)
  ELSE base_global_step(p)

\* _maybe_expand_dims that adds the dimension at the last axis.
maybe_expand_dims_last_axis(f, spec) == IF f = spec THEN Append(f, 1) ELSE f

\* _maybe_expand_dims: np.expand_dims(f, 0) when the shapes are equal.
maybe_expand_dims(f, spec) == IF f = spec THEN <<1>> \o f ELSE f

\* SavedModelPredictorBase.predict.
base_predict(p, features) ==
  IF ~assert_is_loaded(p) THEN Result(p, NotRestored)
  ELSE LET spec == get_feature_specification(p) IN
       IF spec.outcome # Returned THEN spec
       ELSE IF spec.returned = None THEN Result(p, "ValueError_structure")
       ELSE [Result(p, Returned) EXCEPT
               !.handed = Some([k \in Keys |->
                  maybe_expand_dims(features[k], Val(spec.returned)[k])]),
               !.form = "tensor"]

\* SavedModelTF2Predictor.predict: the predictions are converted with numpy().
tf2_predict(p, features) ==
  LET r == base_predict(p, features) IN
  IF r.outcome = Returned THEN [r EXCEPT !.form = "ndarray"] ELSE r

\* tensorspec_utils.make_placeholders(spec, batch_size=None).
make_placeholders(spec) == [k \in Keys |-> <<UnknownDim>> \o spec[k]]

\* tensorspec_utils.map_feed_dict(placeholders, features): the values fed.
map_feed_dict(placeholders, features) == features

\* session.run accepts a fed value whose shape fits the placeholder's shape:
\* the same rank, and the same size in every dimension that is known.
feed_compatible(placeholder, value) ==
  /\ Len(value) = Len(placeholder)
  /\ \A i \in 1..Len(placeholder) :
       placeholder[i] = UnknownDim \/ placeholder[i] = value[i]

\* SavedModelTF1Predictor.predict: session.run of the pre-built predictions
\* with the feed dict; a value that does not fit its placeholder is rejected.
tf1_predict(p, features) ==
  IF ~assert_is_loaded(p) THEN Result(p, NotRestored)
  ELSE IF p.predictions = None \/ p.features = None
       THEN Result(p, "TypeError")
  ELSE LET fed == map_feed_dict(Val(p.features), features) IN
       IF \A k \in Keys : feed_compatible(Val(p.features)[k], fed[k])
       THEN [Result(p, Returned) EXCEPT
               !.handed = Some(fed), !.form = "ndarray"]
       ELSE [Result(p, "ValueError_feed_shape") EXCEPT !.handed = Some(fed)]

predict(v, p, features) ==
  IF v = "graph" THEN tf1_predict(p, features)
  ELSE IF v = "eager" THEN tf2_predict(p, features)
  ELSE base_predict(p, features)

(***************************************************************************)
(* The ambient default session and graph of a thread.                      *)
(***************************************************************************)
Front(s) == SubSeq(s, 1, Len(s) - 1)

\* with self._session.as_default(), self._graph.as_default(): on entry.
with_enter(a) ==
  [session |-> Append(a.session, "own"), graph |-> Append(a.graph, "own")]

\* An exit that restores the default graph and leaves the session.
with_exit_graph_only(a) == [session |-> a.session, graph |-> Front(a.graph)]

\* ... and on every exit of the block, by return or by exception.
with_exit(a) == [session |-> Front(a.session), graph |-> Front(a.graph)]

\* The defaults of the calling thread after SavedModelTF1Predictor.predict:
\* assert_is_loaded runs before the with block is entered.
tf1_predict_ambient(p, a) ==
  IF ~assert_is_loaded(p) THEN a ELSE with_exit(with_enter(a))

predict_ambient(v, p, a) == IF v = "graph" THEN tf1_predict_ambient(p, a) ELSE a

(***************************************************************************)
(* The assignments of SavedModelPredictorBase.restore.                     *)
(***************************************************************************)
\* A restore that drops the old model handle while it reloads.
assign_feature_spec_resetting(p, assets) ==
  [p EXCEPT !.feature_spec = Some(assets.feature_spec), !.model = None]

assign_feature_spec(p, assets) ==
  [p EXCEPT !.feature_spec = Some(assets.feature_spec)]

\* A restore that loads the model before the label specification.
assign_label_spec_model_first(p, assets) ==
  [p EXCEPT !.model = Some("saved_model")]

assign_label_spec(p, assets) ==
  [p EXCEPT !.label_spec = Some(assets.label_spec)]

\* A restore that loads the model without keeping the handle.
assign_model_dropped(p) == p

\* self._model = tf.saved_model.load(self._saved_model_path)
assign_model(p) == [p EXCEPT !.model = Some("saved_model")]

\* A loop condition that still holds when the elapsed time equals the timeout.
loop_condition_inclusive(t, start, limit) == t - start <= limit

\* The loop condition: time.time() - start_time < self._timeout.
loop_condition(t, start, limit) == t - start < limit

(***************************************************************************)
(* Init                                                                    *)
(***************************************************************************)
\* The callers' own default session and graph: one thread has set defaults
\* of its own, the other has not.
CallerDefaults ==
  [t \in Threads |->
     IF t = "t1" THEN [session |-> <<"outer">>, graph |-> <<"outer">>]
     ELSE [session |-> <<>>, graph |-> <<>>]]

NoCall ==
  [op |-> "none", outcome |-> "none", unchanged |-> TRUE, features |-> None,
   handed |-> None, returned |-> None, form |-> "none",
   restore_state |-> "none", closed_before |-> FALSE]

Init ==
  /\ variant \in Variants
  /\ timeout \in Timeouts
  /\ saved_model_path \in PathBasenames
  /\ predictor = Constructed
  /\ export \in {[feature_spec |-> [k \in Keys |-> s],
                  label_spec |-> [k \in {"label"} |-> <<>>]] : s \in SpecShapes}
  /\ marker = FALSE
  /\ now = 0
  /\ pc = "idle"
  /\ restorer = "t1"
  /\ start_time = 0
  /\ checks = 0
  /\ sleeps = 0
  /\ sawMarker = FALSE
  /\ entry = Constructed
  /\ base_result = "none"
  /\ restoreResult = "none"
  /\ restored = FALSE
  /\ closed = FALSE
  /\ ambient0 = CallerDefaults
  /\ ambient = ambient0
  /\ lastCall = NoCall

(***************************************************************************)
(* The methods other than restore.  Thread t1 makes the calls one after    *)
(* the other, restore among them; thread t2 makes calls while t1 is inside *)
(* restore.                                                                *)
(***************************************************************************)
CanCall(t) == IF pc = "idle" THEN t = "t1" ELSE t # restorer

Record(op, r, f) ==
  [op |-> op, outcome |-> r.outcome, unchanged |-> (r.self = predictor),
   features |-> f, handed |-> r.handed, returned |-> r.returned,
   form |-> r.form, restore_state |-> restoreResult, closed_before |-> closed]

RestoreVars ==
  <<marker, now, pc, restorer, start_time, checks, sleeps, sawMarker, entry,
    base_result, restoreResult, restored>>

ConstructorArgs == <<variant, timeout, saved_model_path, export, ambient0>>

Predict(t, f) ==
  /\ CanCall(t)
  /\ LET r == predict(variant, predictor, f) IN
       /\ predictor' = r.self
       /\ lastCall' = Record("predict", r, Some(f))
  /\ ambient' = [ambient EXCEPT ![t] = predict_ambient(variant, predictor, @)]
  /\ UNCHANGED <<ConstructorArgs, RestoreVars, closed>>

GetFeatureSpecification(t) ==
  /\ CanCall(t)
  /\ LET r == get_feature_specification(predictor) IN
       /\ predictor' = r.self
       /\ lastCall' = Record("get_feature_specification", r, None)
  /\ UNCHANGED <<ConstructorArgs, RestoreVars, closed, ambient>>

GetLabelSpecification(t) ==
  /\ CanCall(t)
  /\ LET r == get_label_specification(predictor) IN
       /\ predictor' = r.self
       /\ lastCall' = Record("get_label_specification", r, None)
  /\ UNCHANGED <<ConstructorArgs, RestoreVars, closed, ambient>>

InitRandomly(t) ==
  /\ CanCall(t)
  /\ LET r == init_randomly(predictor) IN
       /\ predictor' = r.self
       /\ lastCall' = Record("init_randomly", r, None)
  /\ UNCHANGED <<ConstructorArgs, RestoreVars, closed, ambient>>

Close(t) ==
  /\ CanCall(t)
  /\ LET r == close(predictor) IN
       /\ predictor' = r.self
       /\ lastCall' = Record("close", r, None)
       /\ closed' = (closed \/ r.outcome = Returned)
  /\ UNCHANGED <<ConstructorArgs, RestoreVars, ambient>>

ModelVersion(t) ==
  /\ CanCall(t)
  /\ LET r == model_version(predictor, saved_model_path) IN
       /\ predictor' = r.self
       /\ lastCall' = Record("model_version", r, None)
  /\ UNCHANGED <<ConstructorArgs, RestoreVars, closed, ambient>>

GlobalStep(t) ==
  /\ CanCall(t)
  /\ LET r == global_step(variant, predictor) IN
       /\ predictor' = r.self
       /\ lastCall' = Record("global_step", r, None)
  /\ UNCHANGED <<ConstructorArgs, RestoreVars, closed, ambient>>

ModelPath(t) ==
  /\ CanCall(t)
  /\ LET r == model_path(predictor) IN
       /\ predictor' = r.self
       /\ lastCall' = Record("model_path", r, None)
  /\ UNCHANGED <<ConstructorArgs, RestoreVars, closed, ambient>>

(***************************************************************************)
(* restore, statement by statement.                                        *)
(***************************************************************************)
\* restore ends (by return or by exception) with `outcome`; `base` is how
\* SavedModelPredictorBase.restore ended.  The graph variant leaves its with
\* block.
Finish(outcome, base) ==
  /\ pc' = "idle"
  /\ base_result' = base
  /\ restoreResult' = outcome
  /\ ambient' = IF variant = "graph"
                THEN [ambient EXCEPT ![restorer] = with_exit(@)]
                ELSE ambient

\* The call: the graph variant enters its with block, then the base restore
\* reads the clock.
RestoreCall(t) ==
  /\ pc = "idle"
  /\ pc' = "loop"
  /\ restorer' = t
  /\ start_time' = now
  /\ checks' = 0
  /\ sleeps' = 0
  /\ sawMarker' = FALSE
  /\ entry' = predictor
  /\ base_result' = "running"
  /\ restoreResult' = "running"
  /\ ambient' = IF variant = "graph"
                THEN [ambient EXCEPT ![t] = with_enter(@)]
                ELSE ambient
  /\ UNCHANGED <<ConstructorArgs, predictor, marker, now, restored,
                 closed, lastCall>>

\* The loop condition is false: the else branch logs a warning and returns
\* False, and the graph variant returns False in turn.
RestoreTimeout ==
  /\ pc = "loop"
  /\ ~loop_condition(now, start_time, timeout)
  /\ Finish("False", "False")
  /\ UNCHANGED <<ConstructorArgs, predictor, marker, now, restorer, start_time,
                 checks, sleeps, sawMarker, entry, restored, closed, lastCall>>

\* tf.io.gfile.exists is true: break.
RestorePollHit ==
  /\ pc = "loop"
  /\ loop_condition(now, start_time, timeout)
  /\ marker
  /\ checks' = checks + 1
  /\ sawMarker' = TRUE
  /\ pc' = "assign_feature_spec"
  /\ UNCHANGED <<ConstructorArgs, predictor, marker, now, restorer, start_time,
                 sleeps, entry, base_result, restoreResult, restored,
                 closed, ambient, lastCall>>

\* tf.io.gfile.exists is false: the arguments of logging.info are evaluated,
\* which reads self._saved_model_dir, and then the loop sleeps.
RestorePollMiss ==
  /\ pc = "loop"
  /\ loop_condition(now, start_time, timeout)
  /\ ~marker
  /\ checks' = checks + 1
  /\ IF HasAttr(variant, LoggedAttribute)
     THEN /\ now' = now + BUSY_WAITING_SLEEP_TIME_IN_SECS
          /\ sleeps' = sleeps + 1
          /\ UNCHANGED <<pc, base_result, restoreResult,
                         ambient>>
     ELSE /\ Finish("AttributeError", "AttributeError")
          /\ UNCHANGED <<now, sleeps>>
  /\ UNCHANGED <<ConstructorArgs, predictor, marker, restorer, start_time,
                 sawMarker, entry, restored, closed, lastCall>>

RestoreAssignFeatureSpec ==
  /\ pc = "assign_feature_spec"
  /\ predictor' = assign_feature_spec(predictor, export)
  /\ pc' = "assign_label_spec"
  /\ UNCHANGED <<ConstructorArgs, marker, now, restorer, start_time, checks,
                 sleeps, sawMarker, entry, base_result, restoreResult,
                 restored, closed, ambient, lastCall>>

RestoreAssignLabelSpec ==
  /\ pc = "assign_label_spec"
  /\ predictor' = assign_label_spec(predictor, export)
  /\ pc' = "load_model"
  /\ UNCHANGED <<ConstructorArgs, marker, now, restorer, start_time, checks,
                 sleeps, sawMarker, entry, base_result, restoreResult,
                 restored, closed, ambient, lastCall>>

\* The model is loaded and the base restore returns True.  The base and the
\* eager variant return that; the graph variant goes on.
RestoreLoadModel ==
  /\ pc = "load_model"
  /\ predictor' = assign_model(predictor)
  /\ restored' = TRUE
  /\ IF variant = "graph"
     THEN /\ pc' = "make_placeholders"
          /\ base_result' = "True"
          /\ UNCHANGED <<restoreResult, ambient>>
     ELSE Finish("True", "True")
  /\ UNCHANGED <<ConstructorArgs, marker, now, restorer, start_time, checks,
                 sleeps, sawMarker, entry, closed, lastCall>>

\* self._features = tensorspec_utils.make_placeholders(self._feature_spec, ..)
GraphMakePlaceholders ==
  /\ pc = "make_placeholders"
  /\ predictor' =
       [predictor EXCEPT
          !.features = Some(make_placeholders(Val(predictor.feature_spec)))]
  /\ pc' = "build_predictions"
  /\ UNCHANGED <<ConstructorArgs, marker, now, restorer, start_time, checks,
                 sleeps, sawMarker, entry, base_result, restoreResult,
                 restored, closed, ambient, lastCall>>

\* self._predictions = super().predict(self._features)
GraphBuildPredictions ==
  /\ pc = "build_predictions"
  /\ LET r == base_predict(predictor, Val(predictor.features)) IN
       IF r.outcome = Returned
       THEN /\ predictor' = [r.self EXCEPT !.predictions = Some("predictions")]
            /\ pc' = "init_variables"
            /\ UNCHANGED <<base_result, restoreResult,
                           ambient>>
       ELSE /\ predictor' = r.self
            /\ Finish(r.outcome, base_result)
  /\ UNCHANGED <<ConstructorArgs, marker, now, restorer, start_time, checks,
                 sleeps, sawMarker, entry, restored, closed, lastCall>>

\* self._session.run(variables_initializer(...)), and the method ends
\* without a return statement: the call evaluates to None.
GraphInitVariables ==
  /\ pc = "init_variables"
  /\ Finish("None", base_result)
  /\ UNCHANGED <<ConstructorArgs, predictor, marker, now, restorer, start_time,
                 checks, sleeps, sawMarker, entry, restored, closed, lastCall>>

\* A runtime call of the graph variant's own part of restore raises.
GraphStepRaises ==
  /\ pc \in {"make_placeholders", "build_predictions", "init_variables"}
  /\ Finish("RuntimeError", base_result)
  /\ UNCHANGED <<ConstructorArgs, predictor, marker, now, restorer, start_time,
                 checks, sleeps, sawMarker, entry, restored, closed, lastCall>>

(***************************************************************************)
(* The environment: the Model Store.                                       *)
(***************************************************************************)
\* The exporter writes the marker file, which it materializes last.
Materialize ==
  /\ ~marker
  /\ marker' = TRUE
  /\ UNCHANGED <<ConstructorArgs, predictor, now, pc, restorer, start_time,
                 checks, sleeps, sawMarker, entry, base_result, restoreResult,
                 restored, closed, ambient, lastCall>>

\* The export is removed from the Model Store (an old export is cleaned up),
\* while no restore call is loading it.
Remove ==
  /\ marker
  /\ pc \in {"idle", "loop"}
  /\ marker' = FALSE
  /\ UNCHANGED <<ConstructorArgs, predictor, now, pc, restorer, start_time,
                 checks, sleeps, sawMarker, entry, base_result, restoreResult,
                 restored, closed, ambient, lastCall>>

Next ==
  \/ \E t \in Threads : \E f \in [Keys -> FeatureShapes] : Predict(t, f)
  \/ \E t \in Threads : GetFeatureSpecification(t)
  \/ \E t \in Threads : GetLabelSpecification(t)
  \/ \E t \in Threads : InitRandomly(t)
  \/ \E t \in Threads : Close(t)
  \/ \E t \in Threads : ModelVersion(t)
  \/ \E t \in Threads : GlobalStep(t)
  \/ \E t \in Threads : ModelPath(t)
  \/ RestoreCall("t1")
  \/ RestoreTimeout
  \/ RestorePollHit
  \/ RestorePollMiss
  \/ RestoreAssignFeatureSpec
  \/ RestoreAssignLabelSpec
  \/ RestoreLoadModel
  \/ GraphMakePlaceholders
  \/ GraphBuildPredictions
  \/ GraphInitVariables
  \/ GraphStepRaises
  \/ Materialize
  \/ Remove

Spec == Init /\ [][Next]_vars

(***************************************************************************)
(* Properties.                                                             *)
(***************************************************************************)
GuardedOps ==
  {"predict", "get_feature_specification", "get_label_specification", "close",
   "model_version", "global_step", "model_path"}

\* The last restore call has ended, by return or by exception.
RestoreEnded == restoreResult \notin {"none", "running"}

Populated(p) ==
  p.model # None /\ p.feature_spec # None /\ p.label_spec # None

\* ceil(timeout / BUSY_WAITING_SLEEP_TIME_IN_SECS), 0 for a timeout <= 0.
MaxChecks ==
  IF timeout <= 0 THEN 0
  ELSE (timeout + BUSY_WAITING_SLEEP_TIME_IN_SECS - 1)
         \div BUSY_WAITING_SLEEP_TIME_IN_SECS

\* C1: for each of the three variants, as long as no restore call has loaded
\* the model (no restore call yet, or only calls that returned False or
\* raised while polling, or one that is still polling), predict, close and
\* every accessor raise the not-restored ValueError and leave the fields
\* unchanged, and between calls the fields are as constructed.
C1_UseBeforeLoad ==
  ~restored =>
    /\ lastCall.op \in GuardedOps =>
         lastCall.outcome = NotRestored /\ lastCall.unchanged
    /\ pc = "idle" => predictor = Constructed

C1_Witness ==
  /\ ~restored
  /\ restoreResult = "False"
  /\ lastCall.restore_state = "False"
  /\ lastCall.op = "predict"
  /\ lastCall.outcome = NotRestored

\* C2: base and eager variant, positive timeout: a restore call in which a
\* check saw the marker file returns True with the feature specification,
\* the label specification and the model handle set; they stay set, and
\* every guarded call made after a restore returned True passes the loaded
\* check.
C2_RestoreSucceeds ==
  (variant \in {"base", "eager"} /\ timeout > 0) =>
    /\ (RestoreEnded /\ sawMarker) =>
         restoreResult = "True" /\ Populated(predictor)
    /\ restored => Populated(predictor)
    /\ (lastCall.op \in GuardedOps /\ lastCall.restore_state = "True") =>
         lastCall.outcome # NotRestored

C2_Witness ==
  /\ variant = "eager"
  /\ timeout > 0
  /\ restoreResult = "True"
  /\ sawMarker
  /\ Populated(predictor)
  /\ lastCall.op = "predict"
  /\ lastCall.restore_state = "True"
  /\ lastCall.outcome = Returned

\* C3 (the claim as stated): with a positive timeout, a restore call none of
\* whose checks saw the marker file returns False and leaves the fields as
\* they were when it was called.
C3_TimeoutReturnsFalse ==
  (timeout > 0 /\ RestoreEnded /\ ~sawMarker) =>
    restoreResult = "False" /\ predictor = entry

\* C4 (the claim as stated): the graph variant's restore gives the result of
\* the base restore it wraps, True after the model, the placeholders and the
\* predictions were built and False after a timeout.
C4_GraphRestoreResult ==
  (variant = "graph" /\ RestoreEnded /\ restoreResult # "RuntimeError") =>
    restoreResult = base_result

\* C5: a predict call of the base or eager variant that returns has handed
\* the runtime, for every feature, the feature with a dimension of size 1
\* prepended when its shape equals the specification's shape, and the
\* feature unchanged when its shape differs.
C5_ExpandDims ==
  (variant \in {"base", "eager"} /\ lastCall.op = "predict"
     /\ lastCall.outcome = Returned) =>
    LET f == Val(lastCall.features)
        h == Val(lastCall.handed)
        spec == Val(predictor.feature_spec)
    IN \A k \in Keys :
         IF f[k] = spec[k]
         THEN /\ Len(h[k]) = Len(spec[k]) + 1
              /\ h[k][1] = 1
              /\ \A i \in 1..Len(spec[k]) : h[k][i + 1] = spec[k][i]
         ELSE h[k] = f[k]

C5_Witness ==
  /\ variant = "base"
  /\ lastCall.op = "predict"
  /\ lastCall.outcome = Returned
  /\ Val(predictor.feature_spec)["x"] = <<MaxDim>>
  /\ Val(lastCall.features)["x"] = <<MaxDim>>
  /\ Val(lastCall.handed)["x"] = <<1, MaxDim>>
  /\ Val(lastCall.features)["y"] = <<1, MaxDim>>
  /\ Val(lastCall.handed)["y"] = <<1, MaxDim>>

\* C6: once a restore call has loaded the model, close returns without
\* raising and leaves the fields unchanged; the model handle stays set, and
\* after a close has returned, predict, close and every accessor still pass
\* the loaded check.
C6_CloseKeepsLoaded ==
  /\ restored => assert_is_loaded(predictor)
  /\ (lastCall.op = "close" /\ lastCall.restore_state \in {"True", "None"}) =>
       lastCall.outcome = Returned /\ lastCall.unchanged
  /\ closed =>
       /\ assert_is_loaded(predictor)
       /\ lastCall.op \in GuardedOps => lastCall.outcome # NotRestored

C6_Witness ==
  /\ closed
  /\ lastCall.closed_before
  /\ lastCall.op = "close"
  /\ lastCall.outcome = Returned
  /\ assert_is_loaded(predictor)

C8_InitRandomlyRaises ==
  /\ init_randomly(predictor).outcome = "ValueError_random_init"
  /\ init_randomly(predictor).self = predictor
  /\ lastCall.op = "init_randomly" =>
       lastCall.outcome = "ValueError_random_init" /\ lastCall.unchanged

C8_Witness ==
  /\ lastCall.op = "init_randomly"
  /\ lastCall.outcome = "ValueError_random_init"
  /\ lastCall.closed_before
  /\ assert_is_loaded(predictor)
  /\ variant = "graph"

\* C9 (the claim as stated): when restore has ended, every check that did
\* not see the marker file was followed by exactly one sleep, and at most
\* ceil(timeout / 10) checks were made.
C9_PollingSchedule ==
  RestoreEnded =>
    /\ sleeps = checks - (IF sawMarker THEN 1 ELSE 0)
    /\ checks <= MaxChecks

\* C10: whenever a thread is not inside a restore call, its default session
\* and graph are its own again, however the graph variant's restore and
\* predict calls ended; inside restore the graph variant's own session and
\* graph are the defaults of the calling thread.
C10_AmbientDefaultsRestored ==
  /\ \A t \in Threads :
       (pc = "idle" \/ t # restorer) => ambient[t] = ambient0[t]
  /\ (variant = "graph" /\ pc # "idle") =>
       ambient[restorer] = with_enter(ambient0[restorer])

C10_Witness ==
  /\ variant = "graph"
  /\ pc = "idle"
  /\ restoreResult = "RuntimeError"
  /\ lastCall.op = "predict"
  /\ lastCall.outcome = "TypeError"
  /\ lastCall.restore_state = "RuntimeError"
  /\ ambient = ambient0

\* C11 (the claim as stated): in every state of the graph variant in which
\* the loaded check passes, the input placeholders and the prediction
\* outputs have been built.
C11_PrebuiltGraph ==
  (variant = "graph" /\ assert_is_loaded(predictor)) =>
    predictor.features # None /\ predictor.predictions # None

\* C12: no step takes the predictor from loaded back to unloaded: once the
\* model handle is set, predict, the accessors, close, init_randomly and
\* every step of a later restore call (one that returns False or raises
\* included) leave it set.
C12_LoadedMonotone ==
  [][predictor.model # None => predictor'.model # None]_vars

\* A restore call made on a loaded and closed predictor has raised, and the
\* model handle is still set.
C12_Witness ==
  /\ entry.model # None
  /\ restoreResult = "AttributeError"
  /\ closed
  /\ lastCall.op = "init_randomly"
  /\ lastCall.restore_state = "AttributeError"
  /\ predictor.model # None

\* C13: in every state in which the model handle is set, the feature and
\* the label specification are set, and a get_feature_specification or
\* get_label_specification call that passes the loaded check returns the
\* specification of the export, also while restore is in progress and after
\* a restore call that failed part-way.
C13_SpecsBeforeModel ==
  /\ predictor.model # None =>
       predictor.feature_spec # None /\ predictor.label_spec # None
  /\ (lastCall.op = "get_feature_specification"
        /\ lastCall.outcome = Returned) =>
       lastCall.returned = Some(export.feature_spec)
  /\ (lastCall.op = "get_label_specification"
        /\ lastCall.outcome = Returned) =>
       lastCall.returned = Some(export.label_spec)

\* The graph variant's restore raised after the model load, and the label
\* specification was read afterwards.
C13_Witness ==
  /\ variant = "graph"
  /\ restoreResult = "RuntimeError"
  /\ predictor.predictions = None
  /\ lastCall.op = "get_label_specification"
  /\ lastCall.restore_state = "RuntimeError"
  /\ lastCall.outcome = Returned
  /\ lastCall.returned = Some(export.label_spec)

\* C14: with a timeout of zero or less, restore makes no existence check,
\* loads nothing, and ends by returning False with the fields as they were,
\* whether or not the marker file is present; and with any timeout the
\* specifications and the model are loaded only in a call in which a check
\* has seen the marker file.
C14_NoCheckWithoutTimeout ==
  /\ timeout <= 0 =>
       /\ checks = 0
       /\ ~restored
       /\ pc \in {"idle", "loop"}
       /\ RestoreEnded => (restoreResult = "False" /\ predictor = entry)
  /\ (pc \in {"assign_feature_spec", "assign_label_spec", "load_model"}
        \/ base_result = "True") =>
       (sawMarker /\ checks >= 1)

C14_Witness ==
  /\ timeout = 0
  /\ marker
  /\ restoreResult = "False"
  /\ checks = 0
  /\ predictor = Constructed
  /\ lastCall.op = "close"
  /\ lastCall.restore_state = "False"
  /\ lastCall.outcome = NotRestored

\* C15 (the claim as stated): a predict call of the graph variant, made
\* after restore has built the graph, feeds every feature whose shape
\* equals the specification's shape with a dimension of size 1 prepended,
\* as the base predict does, and returns.
C15_GraphExpandsDims ==
  (variant = "graph" /\ lastCall.op = "predict"
     /\ lastCall.restore_state = "None") =>
    LET f == Val(lastCall.features)
        spec == Val(predictor.feature_spec)
    IN (\E k \in Keys : f[k] = spec[k]) =>
         /\ lastCall.handed # None
         /\ \A k \in Keys :
              f[k] = spec[k] =>
                Val(lastCall.handed)[k] = maybe_expand_dims(f[k], spec[k])
         /\ (\A k \in Keys : f[k] \in {spec[k], <<1>> \o spec[k]}) =>
              lastCall.outcome = Returned

====
